---- MODULE Spec2Model ----
(***************************************************************************)
(* Scheduling backend: doctors, locations, doctor-location associations,   *)
(* availability slots and appointments, kept in five tables of one shared  *)
(* relational store.  Each service method is an operator from the store    *)
(* and its arguments to the response and the store it leaves; its SQL      *)
(* queries are set comprehensions over the tables.  An action serves one   *)
(* request by committing the store the method leaves.                      *)
(*                                                                         *)
(* Request datetimes are times of one calendar date, written hhmm (1215   *)
(* is 12:15); strftime turns one into its zero-padded digit string, and    *)
(* the store compares the persisted strings bytewise, as SQL does for TEXT *)
(* columns.  The requests of the specifications are on whole hours.        *)
(*                                                                         *)
(* The store starts with the doctors, locations and associations of the    *)
(* seed data and no availability slot or appointment.  A new row gets the  *)
(* largest stored id plus one; deleting a row deletes that row only.       *)
(*                                                                         *)
(*   Spec           booking requests, one at a time, on the seeded pairs   *)
(*   SpecStore      bookings, associations and doctor deletion, one at a   *)
(*                  time                                                   *)
(*   SpecDirectory  doctors, locations and associations, one at a time     *)
(*   SpecRace       two create_appointment requests interleaved per        *)
(*                  statement                                              *)
(***************************************************************************)
EXTENDS Integers, Sequences, FiniteSets, TLC

VARIABLES doctors, locations, doctor_locations, availability, appointments,
          reqs

tables == <<doctors, locations, doctor_locations, availability, appointments>>
vars == <<doctors, locations, doctor_locations, availability, appointments,
          reqs>>

(* the store the services share (self.db), as one value *)
DB == [doctors |-> doctors, locations |-> locations,
       doctor_locations |-> doctor_locations,
       availability |-> availability, appointments |-> appointments]

(* ------------------------------ bounds --------------------------------- *)
MaxHour == 11
MaxAvailabilityId == 2
MaxAppointmentId == 2
MaxDoctorLocationId == 3
MaxStoreRowId == 1
MaxDoctorId == 2
MaxLocationId == 2

Hours == {100 * h : h \in 9..MaxHour}
Days == {"Monday", "Tuesday"}
DoctorIds == {0, 1}
LocationIds == {0, 1}
Clients == {"c1", "c2"}

NoId == -1

(* ------------------------- time strings -------------------------------- *)
(* variant: the hour without its leading zero *)
strftime_nopad(t) ==
    IF t < 1000
    THEN <<t \div 100, (t \div 10) % 10, t % 10>>
    ELSE <<t \div 1000, (t \div 100) % 10, (t \div 10) % 10, t % 10>>

(* %H and %M of strftime("%Y-%m-%dT%H:%M:%S"): two digits each, zero padded *)
strftime(t) == <<t \div 1000, (t \div 100) % 10, (t \div 10) % 10, t % 10>>

(* the time, written hhmm, that a persisted string denotes *)
RECURSIVE HourOf(_)
HourOf(str) ==
    IF str = <<>> THEN 0
    ELSE 10 * HourOf(SubSeq(str, 1, Len(str) - 1)) + str[Len(str)]

(* TEXT comparison of the store: bytewise, a proper prefix sorts first *)
RECURSIVE TextLess(_, _)
TextLess(a, b) ==
    IF b = <<>> THEN FALSE
    ELSE IF a = <<>> THEN TRUE
    ELSE IF Head(a) # Head(b) THEN Head(a) < Head(b)
    ELSE TextLess(Tail(a), Tail(b))

TextLeq(a, b) == a = b \/ TextLess(a, b)

(* ------------------------------ store ---------------------------------- *)
Ids(rows) == {r.id : r \in rows}

MaxOf(S) == CHOOSE m \in S : \A x \in S : x <= m

(* last_row_id of an INSERT: the rowid the store assigns to the new row *)
last_row_id(rows) == IF rows = {} THEN 1 ELSE MaxOf(Ids(rows)) + 1

(* first row of a result set, in rowid order *)
FirstRow(rows) == CHOOSE r \in rows : \A x \in rows : r.id <= x.id

(* ----------------------------- responses ------------------------------- *)
(* what a call hands back: the HTTP status and detail of the response, the  *)
(* id it returns, and the store it leaves                                  *)
Returned(code, id, db) == [code |-> code, detail |-> "", id |-> id, db |-> db]

(* raise HTTPException(status_code, detail) *)
HTTPException(code, detail, db) ==
    [code |-> code, detail |-> detail, id |-> NoId, db |-> db]

(* raise NotFoundException(): answered 404 with an empty body *)
NotFoundException(db) == [code |-> 404, detail |-> "", id |-> NoId, db |-> db]

Commit(r) ==
    /\ doctors' = r.db.doctors
    /\ locations' = r.db.locations
    /\ doctor_locations' = r.db.doctor_locations
    /\ availability' = r.db.availability
    /\ appointments' = r.db.appointments

(* --------------------------- initial state ----------------------------- *)
seed_doctors ==
    { [id |-> 0, first_name |-> "Jane", last_name |-> "Wright"],
      [id |-> 1, first_name |-> "Joseph", last_name |-> "Lister"] }

seed_locations ==
    { [id |-> 0, address |-> "1 Park St"],
      [id |-> 1, address |-> "2 University Ave"] }

seed_doctor_locations ==
    { [id |-> 0, doctor_id |-> 0, location_id |-> 0],
      [id |-> 1, doctor_id |-> 1, location_id |-> 0],
      [id |-> 2, doctor_id |-> 1, location_id |-> 1] }

(* no request in flight *)
Idle == [pc |-> "idle", doctor_id |-> NoId, location_id |-> NoId,
         start_time |-> <<>>, end_time |-> <<>>, day_of_week |-> "",
         doctor_location_id |-> NoId, code |-> 0, detail |-> ""]

Init ==
    /\ doctors = seed_doctors
    /\ locations = seed_locations
    /\ doctor_locations = seed_doctor_locations
    /\ availability = {}
    /\ appointments = {}
    /\ reqs = [c \in Clients |-> Idle]

(* ---------------------- association store ------------------------------ *)
(* variant: the location is left out of the WHERE clause *)
select_doctor_location_by_doctor(db, doctor_id, location_id) ==
    {dl \in db.doctor_locations : dl.doctor_id = doctor_id}

(* SELECT id FROM doctor_locations WHERE doctor_id = ? AND location_id = ? *)
select_doctor_location(db, doctor_id, location_id) ==
    {dl \in db.doctor_locations :
        dl.doctor_id = doctor_id /\ dl.location_id = location_id}

(* variant: the INSERT runs without the SELECT for an existing association *)
add_doctor_location_unchecked(db, doctor_id, location_id) ==
    LET new_id == last_row_id(db.doctor_locations)
    IN  Returned(200, new_id,
            [db EXCEPT !.doctor_locations = @ \cup
                {[id |-> new_id, doctor_id |-> doctor_id,
                  location_id |-> location_id]}])

add_doctor_location(db, doctor_id, location_id) ==
    LET existing_association == select_doctor_location(db, doctor_id, location_id)
        new_id == last_row_id(db.doctor_locations)
    IN  IF existing_association # {}
        THEN HTTPException(400, "Doctor is already associated with this location", db)
        ELSE Returned(200, new_id,
                [db EXCEPT !.doctor_locations = @ \cup
                    {[id |-> new_id, doctor_id |-> doctor_id,
                      location_id |-> location_id]}])

(* variant: the DELETE names the doctor only *)
remove_doctor_location_by_doctor(db, doctor_id, location_id) ==
    LET existing_association == select_doctor_location(db, doctor_id, location_id)
    IN  IF existing_association = {}
        THEN NotFoundException(db)
        ELSE Returned(200, NoId,
                [db EXCEPT !.doctor_locations =
                    {dl \in @ : dl.doctor_id # doctor_id}])

remove_doctor_location(db, doctor_id, location_id) ==
    LET existing_association == select_doctor_location(db, doctor_id, location_id)
    IN  IF existing_association = {}
        THEN NotFoundException(db)
        ELSE Returned(200, NoId,
                [db EXCEPT !.doctor_locations =
                    {dl \in @ : ~(dl.doctor_id = doctor_id
                                  /\ dl.location_id = location_id)}])

(* ----------------------------- doctors --------------------------------- *)
(* SELECT id, first_name, last_name FROM doctors WHERE id = ? *)
get_doctor(db, id) == {d \in db.doctors : d.id = id}

(* variant: the DELETE runs without the get_doctor lookup *)
delete_doctor_unchecked(db, id) ==
    Returned(200, NoId, [db EXCEPT !.doctors = {d \in @ : d.id # id}])

delete_doctor(db, id) ==
    IF get_doctor(db, id) = {}
    THEN NotFoundException(db)
    ELSE Returned(200, NoId, [db EXCEPT !.doctors = {d \in @ : d.id # id}])

(* a response that carries a list of rows *)
Listed(rows, db) ==
    [code |-> 200, detail |-> "", id |-> NoId, db |-> db, rows |-> rows]

(* SELECT l.id, l.address FROM doctor_locations dl
     INNER JOIN locations l ON dl.location_id = l.id WHERE dl.doctor_id = ?
   (one row per association row of the doctor whose location is stored)   *)
select_doctor_locations(db, doctor_id) ==
    {l \in db.locations :
        \E dl \in db.doctor_locations :
            dl.doctor_id = doctor_id /\ dl.location_id = l.id}

list_doctor_locations(db, doctor_id) ==
    LET dict_result == select_doctor_locations(db, doctor_id)
    IN  IF dict_result = {}
        THEN NotFoundException(db)
        ELSE Listed(dict_result, db)

(* Optional[str] left out of an update *)
NULL == "NULL"

(* variant: the column is set to the parameter, NULL or not *)
COALESCE_overwrite(value, column) == value

(* COALESCE(?, column) *)
COALESCE(value, column) == IF value # NULL THEN value ELSE column

add_doctor(db, first_name, last_name) ==
    LET conflict_doctors ==
            {d \in db.doctors :
                d.first_name = first_name /\ d.last_name = last_name}
        _id == last_row_id(db.doctors)
    IN  IF conflict_doctors # {}
        THEN HTTPException(400, "Doctor already exists in the database", db)
        ELSE Returned(200, _id,
                [db EXCEPT !.doctors = @ \cup
                    {[id |-> _id, first_name |-> first_name,
                      last_name |-> last_name]}])

update_doctor(db, id, first_name, last_name) ==
    IF get_doctor(db, id) = {}
    THEN NotFoundException(db)
    ELSE Returned(200, NoId,
            [db EXCEPT !.doctors =
                {IF d.id = id
                 THEN [d EXCEPT !.first_name = COALESCE(first_name, @),
                                !.last_name = COALESCE(last_name, @)]
                 ELSE d : d \in @}])

(* ---------------------------- locations -------------------------------- *)
(* SELECT id, address FROM locations WHERE id = ? *)
get_location(db, id) == {l \in db.locations : l.id = id}

(* variant: the INSERT runs without the SELECT for a duplicate address *)
add_location_unchecked(db, address) ==
    LET new_id == last_row_id(db.locations)
    IN  Returned(200, new_id,
            [db EXCEPT !.locations = @ \cup
                {[id |-> new_id, address |-> address]}])

add_location(db, address) ==
    LET duplicate_locations == {l \in db.locations : l.address = address}
        new_id == last_row_id(db.locations)
    IN  IF duplicate_locations # {}
        THEN HTTPException(400, "Location already exists in the database", db)
        ELSE Returned(200, new_id,
                [db EXCEPT !.locations = @ \cup
                    {[id |-> new_id, address |-> address]}])

(* DELETE /locations/{location_id}: the location router registers this
   path for GET only and the location service has no method that deletes a
   location, so the request reaches no service: it is answered 405 and the
   store is not touched *)
delete_location(db, location_id) ==
    HTTPException(405, "Method Not Allowed", db)

(* variant: the location is not looked up *)
associate_doctor_location_any_location(db, doctor_id, location_id) ==
    IF get_doctor(db, doctor_id) = {}
    THEN HTTPException(404, "Doctor not found", db)
    ELSE add_doctor_location(db, doctor_id, location_id)

(* POST /locations/associate-doctor-location *)
associate_doctor_location(db, doctor_id, location_id) ==
    IF get_doctor(db, doctor_id) = {}
    THEN HTTPException(404, "Doctor not found", db)
    ELSE IF get_location(db, location_id) = {}
    THEN HTTPException(404, "Location not found", db)
    ELSE add_doctor_location(db, doctor_id, location_id)

(* DELETE /locations/deassociate-doctor-location *)
deassociate_doctor_location(db, doctor_id, location_id) ==
    IF get_doctor(db, doctor_id) = {}
    THEN HTTPException(404, "Doctor not found", db)
    ELSE IF get_location(db, location_id) = {}
    THEN HTTPException(404, "Location not found", db)
    ELSE LET r == remove_doctor_location(db, doctor_id, location_id)
         IN  IF r.code = 404
             THEN HTTPException(404, "Association not found", db)
             ELSE r

(* --------------------------- availability ------------------------------ *)
(* variant: the two parameters bound in the other order *)
conflict_availabilities_swapped(db, doctor_location_id, day_of_week, start_time, end_time) ==
    {a \in db.availability :
        /\ a.doctor_location_id = doctor_location_id
        /\ a.day_of_week = day_of_week
        /\ ~(TextLeq(a.end_time, end_time) \/ TextLeq(start_time, a.start_time))}

(* variant: closed intervals, NOT (end_time < ? OR start_time > ?) *)
conflict_availabilities_closed(db, doctor_location_id, day_of_week, start_time, end_time) ==
    {a \in db.availability :
        /\ a.doctor_location_id = doctor_location_id
        /\ a.day_of_week = day_of_week
        /\ ~(TextLess(a.end_time, start_time) \/ TextLess(end_time, a.start_time))}

(* WHERE doctor_location_id = ? AND day_of_week = ?
     AND NOT (end_time <= ? OR start_time >= ?)        [start_time, end_time] *)
conflict_availabilities(db, doctor_location_id, day_of_week, start_time, end_time) ==
    {a \in db.availability :
        /\ a.doctor_location_id = doctor_location_id
        /\ a.day_of_week = day_of_week
        /\ ~(TextLeq(a.end_time, start_time) \/ TextLeq(end_time, a.start_time))}

(* variant: the slot is stored before the conflict query runs *)
add_availability_insert_first(db, doctor_id, location_id, start_dt, end_dt, day_of_week) ==
    LET start_time == strftime(start_dt)
        end_time == strftime(end_dt)
        doctor_location == select_doctor_location(db, doctor_id, location_id)
        doctor_location_id == FirstRow(doctor_location).id
        new_id == last_row_id(db.availability)
        stored == [db EXCEPT !.availability = @ \cup
                    {[id |-> new_id, doctor_location_id |-> doctor_location_id,
                      start_time |-> start_time, end_time |-> end_time,
                      day_of_week |-> day_of_week]}]
    IN  IF doctor_location = {}
        THEN HTTPException(400,
                "Doctor is not associated with the selected location.", db)
        ELSE IF conflict_availabilities(db, doctor_location_id, day_of_week,
                                        start_time, end_time) # {}
        THEN HTTPException(400,
                "Doctor is already available for that time slot", stored)
        ELSE Returned(200, new_id, stored)

add_availability(db, doctor_id, location_id, start_dt, end_dt, day_of_week) ==
    LET start_time == strftime(start_dt)
        end_time == strftime(end_dt)
        doctor_location == select_doctor_location(db, doctor_id, location_id)
        doctor_location_id == FirstRow(doctor_location).id
        new_id == last_row_id(db.availability)
    IN  IF doctor_location = {}
        THEN HTTPException(400,
                "Doctor is not associated with the selected location.", db)
        ELSE IF conflict_availabilities(db, doctor_location_id, day_of_week,
                                        start_time, end_time) # {}
        THEN HTTPException(400,
                "Doctor is already available for that time slot", db)
        ELSE Returned(200, new_id,
                [db EXCEPT !.availability = @ \cup
                    {[id |-> new_id, doctor_location_id |-> doctor_location_id,
                      start_time |-> start_time, end_time |-> end_time,
                      day_of_week |-> day_of_week]}])

(* variant: the doctor is left out of the WHERE clause *)
existing_availability_any_doctor(db, doctor_id, availability_id) ==
    {a \in db.availability :
        /\ a.id = availability_id
        /\ \E dl \in db.doctor_locations : dl.id = a.doctor_location_id}

(* FROM availability a INNER JOIN doctor_locations dl
     ON a.doctor_location_id = dl.id WHERE a.id = ? AND dl.doctor_id = ?  *)
existing_availability(db, doctor_id, availability_id) ==
    {a \in db.availability :
        /\ a.id = availability_id
        /\ \E dl \in db.doctor_locations :
              dl.id = a.doctor_location_id /\ dl.doctor_id = doctor_id}

delete_availability(db, doctor_id, availability_id) ==
    IF existing_availability(db, doctor_id, availability_id) = {}
    THEN NotFoundException(db)
    ELSE Returned(204, NoId,
            [db EXCEPT !.availability = {a \in @ : a.id # availability_id}])

(* --------------------------- appointments ------------------------------ *)
(* variant: the end_time condition left out *)
matching_availability_start_only(db, doctor_location_id, day_of_week, start_time, end_time) ==
    {a \in db.availability :
        /\ a.doctor_location_id = doctor_location_id
        /\ a.day_of_week = day_of_week
        /\ TextLeq(a.start_time, start_time)}

(* variant: the day_of_week condition left out *)
matching_availability_any_day(db, doctor_location_id, day_of_week, start_time, end_time) ==
    {a \in db.availability :
        /\ a.doctor_location_id = doctor_location_id
        /\ TextLeq(a.start_time, start_time)
        /\ TextLeq(end_time, a.end_time)}

(* WHERE doctor_location_id = ? AND day_of_week = ?
     AND start_time <= ? AND end_time >= ?             [start_time, end_time] *)
matching_availability(db, doctor_location_id, day_of_week, start_time, end_time) ==
    {a \in db.availability :
        /\ a.doctor_location_id = doctor_location_id
        /\ a.day_of_week = day_of_week
        /\ TextLeq(a.start_time, start_time)
        /\ TextLeq(end_time, a.end_time)}

(* variant: the doctor_location_id condition left out *)
conflict_appointments_any_association(db, doctor_location_id, start_time, end_time) ==
    {a \in db.appointments :
        ~(TextLeq(a.end_time, start_time) \/ TextLeq(end_time, a.start_time))}

(* variant: closed intervals, NOT (end_time < ? OR start_time > ?) *)
conflict_appointments_closed(db, doctor_location_id, start_time, end_time) ==
    {a \in db.appointments :
        /\ a.doctor_location_id = doctor_location_id
        /\ ~(TextLess(a.end_time, start_time) \/ TextLess(end_time, a.start_time))}

(* variant: only an appointment that starts inside the request conflicts *)
conflict_appointments_start_inside(db, doctor_location_id, start_time, end_time) ==
    {a \in db.appointments :
        /\ a.doctor_location_id = doctor_location_id
        /\ TextLeq(start_time, a.start_time)
        /\ TextLess(a.start_time, end_time)}

(* WHERE doctor_location_id = ?
     AND NOT (end_time <= ? OR start_time >= ?)        [start_time, end_time] *)
conflict_appointments(db, doctor_location_id, start_time, end_time) ==
    {a \in db.appointments :
        /\ a.doctor_location_id = doctor_location_id
        /\ ~(TextLeq(a.end_time, start_time) \/ TextLeq(end_time, a.start_time))}

(* variant: the overlap query also asks for the same day_of_week *)
create_appointment_day_scoped(db, doctor_id, location_id, start_dt, end_dt, day_of_week) ==
    LET start_time == strftime(start_dt)
        end_time == strftime(end_dt)
        doctor_location == select_doctor_location(db, doctor_id, location_id)
        doctor_location_id == FirstRow(doctor_location).id
        new_id == last_row_id(db.appointments)
    IN  IF doctor_location = {}
        THEN HTTPException(400, "Invalid doctor or location association.", db)
        ELSE IF matching_availability(db, doctor_location_id, day_of_week,
                                      start_time, end_time) = {}
        THEN HTTPException(400, "No matching availability.", db)
        ELSE IF {a \in conflict_appointments(db, doctor_location_id,
                                             start_time, end_time) :
                    a.day_of_week = day_of_week} # {}
        THEN HTTPException(400, "Time slot already booked.", db)
        ELSE Returned(200, new_id,
                [db EXCEPT !.appointments = @ \cup
                    {[id |-> new_id, doctor_location_id |-> doctor_location_id,
                      start_time |-> start_time, end_time |-> end_time,
                      day_of_week |-> day_of_week]}])

create_appointment(db, doctor_id, location_id, start_dt, end_dt, day_of_week) ==
    LET start_time == strftime(start_dt)
        end_time == strftime(end_dt)
        doctor_location == select_doctor_location(db, doctor_id, location_id)
        doctor_location_id == FirstRow(doctor_location).id
        new_id == last_row_id(db.appointments)
    IN  IF doctor_location = {}
        THEN HTTPException(400, "Invalid doctor or location association.", db)
        ELSE IF matching_availability(db, doctor_location_id, day_of_week,
                                      start_time, end_time) = {}
        THEN HTTPException(400, "No matching availability.", db)
        ELSE IF conflict_appointments(db, doctor_location_id,
                                      start_time, end_time) # {}
        THEN HTTPException(400, "Time slot already booked.", db)
        ELSE Returned(200, new_id,
                [db EXCEPT !.appointments = @ \cup
                    {[id |-> new_id, doctor_location_id |-> doctor_location_id,
                      start_time |-> start_time, end_time |-> end_time,
                      day_of_week |-> day_of_week]}])

(* FROM appointments a INNER JOIN doctor_locations dl
     ON a.doctor_location_id = dl.id WHERE a.id = ?                       *)
get_appointment(db, appointment_id) ==
    {a \in db.appointments :
        /\ a.id = appointment_id
        /\ \E dl \in db.doctor_locations : dl.id = a.doctor_location_id}

delete_appointment(db, appointment_id) ==
    IF get_appointment(db, appointment_id) = {}
    THEN NotFoundException(db)
    ELSE Returned(204, NoId,
            [db EXCEPT !.appointments = {a \in @ : a.id # appointment_id}])

(* --------------------- sequential specifications ----------------------- *)
(* One request runs to completion before the next starts: the endpoint     *)
(* answers with r and leaves the store as r.db.  A request that would      *)
(* store a row whose id exceeds the bound is not issued.                   *)
(* Requested intervals: every proper one, and one empty one (start = end),  *)
(* which no check of the services rejects.                                 *)
Intervals == {iv \in Hours \X Hours : iv[1] < iv[2]} \cup {<<1000, 1000>>}

AddDoctorLocation(pairs) ==
    \E p \in pairs :
        LET r == add_doctor_location(DB, p[1], p[2])
        IN  r.id <= MaxDoctorLocationId /\ Commit(r) /\ UNCHANGED reqs

RemoveDoctorLocation(pairs) ==
    \E p \in pairs :
        Commit(remove_doctor_location(DB, p[1], p[2])) /\ UNCHANGED reqs

DeleteDoctor(ids) ==
    \E d \in ids : Commit(delete_doctor(DB, d)) /\ UNCHANGED reqs

AddAvailability(pairs, max_id) ==
    \E p \in pairs, iv \in Intervals, day \in Days :
        LET r == add_availability(DB, p[1], p[2], iv[1], iv[2], day)
        IN  r.id <= max_id /\ Commit(r) /\ UNCHANGED reqs

DeleteAvailability(ids, max_id) ==
    \E d \in ids, a \in 1..(max_id + 1) :
        Commit(delete_availability(DB, d, a)) /\ UNCHANGED reqs

CreateAppointment(pairs, max_id) ==
    \E p \in pairs, iv \in Intervals, day \in Days :
        LET r == create_appointment(DB, p[1], p[2], iv[1], iv[2], day)
        IN  r.id <= max_id /\ Commit(r) /\ UNCHANGED reqs

DeleteAppointment(max_id) ==
    \E a \in 1..(max_id + 1) :
        Commit(delete_appointment(DB, a)) /\ UNCHANGED reqs

(* the names and addresses the directory requests use *)
Names == {"Jane", "Joseph"} \X {"Wright", "Lister"}
Patches == {NULL, "Jane"} \X {NULL, "Wright"}
Addresses == {"1 Park St", "3 Main St"}

AddDoctor ==
    \E n \in Names :
        LET r == add_doctor(DB, n[1], n[2])
        IN  r.id <= MaxDoctorId /\ Commit(r) /\ UNCHANGED reqs

UpdateDoctor(ids) ==
    \E d \in ids, n \in Patches :
        Commit(update_doctor(DB, d, n[1], n[2])) /\ UNCHANGED reqs

AddLocation ==
    \E a \in Addresses :
        LET r == add_location(DB, a)
        IN  r.id <= MaxLocationId /\ Commit(r) /\ UNCHANGED reqs

AssociateDoctorLocation(doctor_ids, location_ids) ==
    \E d \in doctor_ids, l \in location_ids :
        LET r == associate_doctor_location(DB, d, l)
        IN  r.id <= MaxDoctorLocationId /\ Commit(r) /\ UNCHANGED reqs

DeassociateDoctorLocation(doctor_ids, location_ids) ==
    \E d \in doctor_ids, l \in location_ids :
        Commit(deassociate_doctor_location(DB, d, l)) /\ UNCHANGED reqs

(* Booking on the seeded associations: doctor 1 at both locations, and the *)
(* pair (0, 1), which the seed does not associate.                         *)
BookingPairs == {<<1, 0>>, <<1, 1>>, <<0, 1>>}

Next ==
    \/ AddAvailability(BookingPairs, MaxAvailabilityId)
    \/ DeleteAvailability(DoctorIds, MaxAvailabilityId)
    \/ CreateAppointment(BookingPairs, MaxAppointmentId)
    \/ DeleteAppointment(MaxAppointmentId)

Spec == Init /\ [][Next]_vars

(* Bookings together with associations added and removed and doctors      *)
(* deleted, with one availability slot and one appointment at a time (ids  *)
(* up to MaxStoreRowId).                                                   *)

NextStore ==
    \/ AddDoctorLocation(BookingPairs)
    \/ RemoveDoctorLocation(BookingPairs)
    \/ DeleteDoctor(DoctorIds \cup {2})
    \/ AddAvailability(BookingPairs, MaxStoreRowId)
    \/ DeleteAvailability(DoctorIds, MaxStoreRowId)
    \/ CreateAppointment(BookingPairs, MaxStoreRowId)
    \/ DeleteAppointment(MaxStoreRowId)

SpecStore == Init /\ [][NextStore]_vars

(* The directory: doctors, locations and their associations, through the  *)
(* endpoints that add, update, delete and associate them.                  *)
DirectoryDoctorIds == 0..MaxDoctorId
DirectoryLocationIds == 0..MaxLocationId

NextDirectory ==
    \/ AddDoctor
    \/ UpdateDoctor(DirectoryDoctorIds)
    \/ DeleteDoctor(DirectoryDoctorIds)
    \/ AddLocation
    \/ AssociateDoctorLocation(DirectoryDoctorIds, DirectoryLocationIds)
    \/ DeassociateDoctorLocation(DirectoryDoctorIds, DirectoryLocationIds)

SpecDirectory == Init /\ [][NextDirectory]_vars

(* ------------------ concurrent appointment requests -------------------- *)
(* The endpoint is a plain def, which the server runs on a worker thread:  *)
(* two requests interleave between the statements create_appointment       *)
(* executes.  Each client sends one request.                               *)
Finish(c, code, detail) ==
    /\ reqs' = [reqs EXCEPT ![c].pc = "done", ![c].code = code,
                            ![c].detail = detail]
    /\ UNCHANGED tables

(* the call arrives; the datetimes are formatted *)
create_appointment_begin(c, doctor_id, location_id, start_dt, end_dt, day_of_week) ==
    /\ reqs[c].pc = "idle"
    /\ reqs' = [reqs EXCEPT ![c] =
                   [Idle EXCEPT !.pc = "step1",
                                !.doctor_id = doctor_id,
                                !.location_id = location_id,
                                !.start_time = strftime(start_dt),
                                !.end_time = strftime(end_dt),
                                !.day_of_week = day_of_week]]
    /\ UNCHANGED tables

(* Step 1: Ensure the doctor-location association exists *)
create_appointment_step1(c) ==
    LET q == reqs[c]
        doctor_location == select_doctor_location(DB, q.doctor_id, q.location_id)
    IN  /\ q.pc = "step1"
        /\ IF doctor_location = {}
           THEN Finish(c, 400, "Invalid doctor or location association.")
           ELSE /\ reqs' = [reqs EXCEPT ![c].pc = "step2",
                       ![c].doctor_location_id = FirstRow(doctor_location).id]
                /\ UNCHANGED tables

(* Step 2: Validate against availability *)
create_appointment_step2(c) ==
    LET q == reqs[c]
    IN  /\ q.pc = "step2"
        /\ IF matching_availability(DB, q.doctor_location_id, q.day_of_week,
                                    q.start_time, q.end_time) = {}
           THEN Finish(c, 400, "No matching availability.")
           ELSE /\ reqs' = [reqs EXCEPT ![c].pc = "step3"]
                /\ UNCHANGED tables

(* Step 3: Check for overlapping appointments *)
create_appointment_step3(c) ==
    LET q == reqs[c]
    IN  /\ q.pc = "step3"
        /\ IF conflict_appointments(DB, q.doctor_location_id,
                                    q.start_time, q.end_time) # {}
           THEN Finish(c, 400, "Time slot already booked.")
           ELSE /\ reqs' = [reqs EXCEPT ![c].pc = "step4"]
                /\ UNCHANGED tables

(* Step 4: Insert new appointment *)
create_appointment_step4(c) ==
    LET q == reqs[c]
        new_id == last_row_id(appointments)
    IN  /\ q.pc = "step4"
        /\ new_id <= MaxAppointmentId
        /\ appointments' = appointments \cup
               {[id |-> new_id, doctor_location_id |-> q.doctor_location_id,
                 start_time |-> q.start_time, end_time |-> q.end_time,
                 day_of_week |-> q.day_of_week]}
        /\ reqs' = [reqs EXCEPT ![c].pc = "done", ![c].code = 200]
        /\ UNCHANGED <<doctors, locations, doctor_locations, availability>>

RacePairs == {<<1, 1>>, <<0, 1>>}

BeginCreateAppointment ==
    \E c \in Clients, p \in RacePairs, iv \in Intervals, day \in Days :
        create_appointment_begin(c, p[1], p[2], iv[1], iv[2], day)

LookupAssociation == \E c \in Clients : create_appointment_step1(c)

CheckAvailability == \E c \in Clients : create_appointment_step2(c)

CheckOverlap == \E c \in Clients : create_appointment_step3(c)

InsertAppointment == \E c \in Clients : create_appointment_step4(c)

NextRace ==
    \/ AddAvailability(RacePairs, MaxStoreRowId)
    \/ BeginCreateAppointment
    \/ LookupAssociation
    \/ CheckAvailability
    \/ CheckOverlap
    \/ InsertAppointment

SpecRace == Init /\ [][NextRace]_vars

(* ============================ properties =============================== *)
(* Half-open overlap test of two intervals [s1, e1) and [s2, e2) *)
Overlap(s1, e1, s2, e2) == ~(e1 <= s2 \/ s1 >= e2)

StartOf(row) == HourOf(row.start_time)
EndOf(row) == HourOf(row.end_time)

RowsOverlap(a, b) == Overlap(StartOf(a), EndOf(a), StartOf(b), EndOf(b))

(* the association rows of a (doctor, location) pair *)
AssociationsOf(d, l) ==
    {dl \in doctor_locations : dl.doctor_id = d /\ dl.location_id = l}

AskedDoctorIds == DoctorIds \cup {2}
AskedLocationIds == LocationIds \cup {2}

(* r stored exactly one new row in table t of the store, with id r.id *)
InsertedOne(r, t, rows) ==
    /\ r.code = 200
    /\ r.id \notin Ids(rows)
    /\ \E row \in r.db[t] : row.id = r.id /\ r.db[t] = rows \cup {row}
    /\ \A u \in DOMAIN DB : u # t => r.db[u] = DB[u]

(* the row with id r.id that r stored in table t holds this request *)
StoredAs(r, t, dl, s, e, day) ==
    \A row \in r.db[t] : row.id = r.id =>
        /\ row.doctor_location_id = dl.id
        /\ StartOf(row) = s
        /\ EndOf(row) = e
        /\ row.day_of_week = day

(* the three conditions of a bookable request *)
Bookable(d, l, s, e, day) ==
    \E dl \in AssociationsOf(d, l) :
        /\ \E slot \in availability :
              /\ slot.doctor_location_id = dl.id
              /\ slot.day_of_week = day
              /\ StartOf(slot) <= s
              /\ EndOf(slot) >= e
        /\ \A a \in appointments :
              a.doctor_location_id = dl.id
                  => ~Overlap(StartOf(a), EndOf(a), s, e)

(* C1: create_appointment inserts one appointment and returns its id if and
   only if the pair is associated, a slot of that association on the same
   day has slot.start <= start and slot.end >= end, and no appointment of
   the association overlaps [start, end); otherwise it fails and the store
   is unchanged. *)
C1_CreateSucceedsIffBookable ==
    \A d \in DoctorIds, l \in LocationIds,
       s \in Hours, e \in Hours, day \in Days :
        LET r == create_appointment(DB, d, l, s, e, day)
        IN  IF Bookable(d, l, s, e, day)
            THEN /\ InsertedOne(r, "appointments", appointments)
                 /\ \A dl \in AssociationsOf(d, l) :
                        StoredAs(r, "appointments", dl, s, e, day)
            ELSE r.code = 400 /\ r.id = NoId /\ r.db = DB

(* an appointment is booked, and one further request would be turned down
   for each of the three reasons *)
C1_Witness ==
    /\ appointments # {}
    /\ \A why \in {"Invalid doctor or location association.",
                   "No matching availability.",
                   "Time slot already booked."} :
          \E d \in DoctorIds, l \in LocationIds,
             s \in Hours, e \in Hours, day \in Days :
              create_appointment(DB, d, l, s, e, day).detail = why

(* C2: no two distinct stored appointments of one association overlap. *)
C2_NoOverlappingAppointments ==
    \A a \in appointments, b \in appointments :
        (a # b /\ a.doctor_location_id = b.doctor_location_id)
            => ~RowsOverlap(a, b)

(* two proper appointments of one association are stored *)
C2_Witness ==
    \E a \in appointments, b \in appointments :
        /\ a # b
        /\ a.doctor_location_id = b.doctor_location_id
        /\ StartOf(a) < EndOf(a)
        /\ StartOf(b) < EndOf(b)

(* C3: no two distinct stored availability slots of one association and one
   day_of_week overlap. *)
C3_NoOverlappingSlots ==
    \A a \in availability, b \in availability :
        (/\ a # b
         /\ a.doctor_location_id = b.doctor_location_id
         /\ a.day_of_week = b.day_of_week)
            => ~RowsOverlap(a, b)

(* two proper slots of one association and day are stored *)
C3_Witness ==
    \E a \in availability, b \in availability :
        /\ a # b
        /\ a.doctor_location_id = b.doctor_location_id
        /\ a.day_of_week = b.day_of_week
        /\ StartOf(a) < EndOf(a)
        /\ StartOf(b) < EndOf(b)

(* C4: every stored appointment lies inside a stored availability slot of
   its association and day (slot.start <= start and end <= slot.end). *)
C4_AppointmentsCovered ==
    \A a \in appointments :
        \E slot \in availability :
            /\ slot.doctor_location_id = a.doctor_location_id
            /\ slot.day_of_week = a.day_of_week
            /\ StartOf(slot) <= StartOf(a)
            /\ EndOf(a) <= EndOf(slot)

(* the stored slots and appointments whose association row is gone *)
Orphans ==
    {row \in appointments \cup availability :
        \A dl \in doctor_locations : dl.id # row.doctor_location_id}

(* C5: every stored appointment and every stored availability slot
   references an association row that is still stored. *)
C5_ReferencesResolve == Orphans = {}

SlotTaken == "Time slot already booked."
SlotConflict == "Doctor is already available for that time slot"

(* C6: both conflict checks are half-open: a request [s2, e2) is turned down
   as a conflict only when a stored row [s1, e1) of the association (and, for
   slots, of the day) has e1 > s2 and s1 < e2; a row that only touches it
   (e1 = s2 or e2 = s1) causes no conflict. *)
C6_ConflictOnlyOnProperOverlap ==
    \A d \in DoctorIds, l \in LocationIds,
       s2 \in Hours, e2 \in Hours, day \in Days :
        /\ create_appointment(DB, d, l, s2, e2, day).detail = SlotTaken
             => \E dl \in AssociationsOf(d, l), a \in appointments :
                    /\ a.doctor_location_id = dl.id
                    /\ EndOf(a) > s2
                    /\ StartOf(a) < e2
        /\ add_availability(DB, d, l, s2, e2, day).detail = SlotConflict
             => \E dl \in AssociationsOf(d, l), a \in availability :
                    /\ a.doctor_location_id = dl.id
                    /\ a.day_of_week = day
                    /\ EndOf(a) > s2
                    /\ StartOf(a) < e2

(* two appointments that touch and two slots that touch are stored, each
   pair on one association (the slots on one day) *)
C6_Witness ==
    /\ \E a \in appointments, b \in appointments :
          /\ a.doctor_location_id = b.doctor_location_id
          /\ StartOf(a) < EndOf(a)
          /\ EndOf(a) = StartOf(b)
          /\ StartOf(b) < EndOf(b)
    /\ \E a \in availability, b \in availability :
          /\ a.doctor_location_id = b.doctor_location_id
          /\ a.day_of_week = b.day_of_week
          /\ StartOf(a) < EndOf(a)
          /\ EndOf(a) = StartOf(b)
          /\ StartOf(b) < EndOf(b)

(* a response that reports an error comes with the store as it was *)
ErrorKeepsStore(r) == r.code \in {400, 404} => r.db = DB

(* C7: a call that ends in an error (404, or a 400 validation or conflict
   error) leaves all five tables as they were, on every service. *)
C7_ErrorsLeaveStoreUnchanged ==
    /\ \A n \in Names : ErrorKeepsStore(add_doctor(DB, n[1], n[2]))
    /\ \A d \in AskedDoctorIds, n \in Patches :
          ErrorKeepsStore(update_doctor(DB, d, n[1], n[2]))
    /\ \A d \in AskedDoctorIds : ErrorKeepsStore(delete_doctor(DB, d))
    /\ \A a \in Addresses : ErrorKeepsStore(add_location(DB, a))
    /\ \A d \in AskedDoctorIds, l \in AskedLocationIds :
          /\ ErrorKeepsStore(add_doctor_location(DB, d, l))
          /\ ErrorKeepsStore(remove_doctor_location(DB, d, l))
          /\ ErrorKeepsStore(associate_doctor_location(DB, d, l))
          /\ ErrorKeepsStore(deassociate_doctor_location(DB, d, l))
    /\ \A d \in DoctorIds, l \in LocationIds,
          s \in Hours, e \in Hours, day \in Days :
          /\ ErrorKeepsStore(add_availability(DB, d, l, s, e, day))
          /\ ErrorKeepsStore(create_appointment(DB, d, l, s, e, day))
    /\ \A d \in AskedDoctorIds, a \in 1..(MaxStoreRowId + 1) :
          ErrorKeepsStore(delete_availability(DB, d, a))
    /\ \A a \in 1..(MaxStoreRowId + 1) :
          ErrorKeepsStore(delete_appointment(DB, a))

(* a slot and an appointment are stored, and in this state calls fail for
   a missing row, a duplicate association, a slot conflict, a missing slot
   and a booked time *)
C7_Witness ==
    /\ availability # {}
    /\ appointments # {}
    /\ \E a \in 1..(MaxStoreRowId + 1) : delete_appointment(DB, a).code = 404
    /\ \E d \in DoctorIds, l \in LocationIds :
          add_doctor_location(DB, d, l).code = 400
    /\ \E d \in DoctorIds, l \in LocationIds,
          s \in Hours, e \in Hours, day \in Days :
          add_availability(DB, d, l, s, e, day).detail = SlotConflict
    /\ \E d \in DoctorIds, l \in LocationIds,
          s \in Hours, e \in Hours, day \in Days :
          create_appointment(DB, d, l, s, e, day).detail = SlotTaken
    /\ \E d \in DoctorIds, l \in LocationIds,
          s \in Hours, e \in Hours, day \in Days :
          create_appointment(DB, d, l, s, e, day).detail
              = "No matching availability."

(* two stored appointments of one association with overlapping intervals *)
DoubleBooked ==
    \E a \in appointments, b \in appointments :
        /\ a # b
        /\ a.doctor_location_id = b.doctor_location_id
        /\ RowsOverlap(a, b)

(* an appointment stored now that overlaps the request client c holds *)
ClashesWith(c) ==
    \E a \in appointments :
        /\ a.doctor_location_id = reqs[c].doctor_location_id
        /\ Overlap(StartOf(a), EndOf(a),
                   HourOf(reqs[c].start_time), HourOf(reqs[c].end_time))

(* C8: create_appointment is not atomic.  A request passes its overlap
   check exactly when no overlapping appointment of its association is
   stored at that moment, and is turned down there otherwise; the insert
   that follows does not look again, so two interleaved requests for
   overlapping intervals both pass and both insert (C8_Witness). *)
C8_CheckSeesOnlyStoredAppointments ==
    [][\A c \in Clients :
          (reqs[c].pc = "step3" /\ reqs'[c].pc # "step3")
              => /\ ~ClashesWith(c) => reqs'[c].pc = "step4"
                 /\ ClashesWith(c) =>
                        (reqs'[c].pc = "done" /\ reqs'[c].detail = SlotTaken)
                 /\ appointments' = appointments]_vars

(* both clients were answered 200 and the store is double-booked *)
C8_Witness ==
    /\ \A c \in Clients : reqs[c].pc = "done" /\ reqs[c].code = 200
    /\ DoubleBooked

(* C9: for an associated pair, a day and start < end, add_availability
   succeeds when no stored slot of that association and day overlaps the
   interval; right after a successful add, every add on the same
   association and day with the same or an overlapping interval fails with
   the conflict error and stores nothing. *)
C9_AddOnceThenConflict ==
    \A d \in DoctorIds, l \in LocationIds, day \in Days,
       s \in Hours, e \in Hours :
        (s < e /\ AssociationsOf(d, l) # {}) =>
            LET r1 == add_availability(DB, d, l, s, e, day)
                free == \A dl \in AssociationsOf(d, l), a \in availability :
                            (a.doctor_location_id = dl.id /\ a.day_of_week = day)
                                => ~Overlap(StartOf(a), EndOf(a), s, e)
            IN  /\ free => InsertedOne(r1, "availability", availability)
                /\ r1.code = 200 =>
                     \A s2 \in Hours, e2 \in Hours :
                         Overlap(s, e, s2, e2) =>
                             LET r2 == add_availability(r1.db, d, l, s2, e2, day)
                             IN  /\ r2.code = 400
                                 /\ r2.detail = SlotConflict
                                 /\ r2.db = r1.db

(* a proper slot is stored, and adding it once more is a conflict *)
C9_Witness ==
    \E a \in availability, dl \in doctor_locations :
        /\ dl.id = a.doctor_location_id
        /\ StartOf(a) < EndOf(a)
        /\ add_availability(DB, dl.doctor_id, dl.location_id,
                            StartOf(a), EndOf(a), a.day_of_week).detail
               = SlotConflict

(* C10: for a pair without an association row, add_availability and
   create_appointment fail with their 400 invalid-reference error and store
   nothing, whatever the interval, the day and the rest of the store. *)
C10_NoAssociationNoBooking ==
    \A d \in AskedDoctorIds, l \in AskedLocationIds :
        AssociationsOf(d, l) = {} =>
            \A s \in Hours, e \in Hours, day \in Days :
                LET r1 == add_availability(DB, d, l, s, e, day)
                    r2 == create_appointment(DB, d, l, s, e, day)
                IN  /\ r1.code = 400
                    /\ r1.detail =
                         "Doctor is not associated with the selected location."
                    /\ r1.db = DB
                    /\ r2.code = 400
                    /\ r2.detail = "Invalid doctor or location association."
                    /\ r2.db = DB

(* a pair lost its association while a slot and an appointment made for it
   are still stored, and the doctor keeps another association *)
C10_Witness ==
    \E d \in DoctorIds, l \in LocationIds :
        /\ AssociationsOf(d, l) = {}
        /\ \E dl \in doctor_locations : dl.doctor_id = d
        /\ availability # {}
        /\ appointments # {}
        /\ Orphans # {}

AlreadyAssociated == "Doctor is already associated with this location"

(* C11: add_doctor_location answers 400 and stores nothing whenever an
   association of the pair is stored, and in every state at most one
   association row is stored per (doctor_id, location_id) pair. *)
C11_OneAssociationPerPair ==
    /\ \A d \in AskedDoctorIds, l \in AskedLocationIds :
          AssociationsOf(d, l) # {} =>
              LET r == add_doctor_location(DB, d, l)
              IN  /\ r.code = 400
                  /\ r.detail = AlreadyAssociated
                  /\ r.db = DB
    /\ \A a \in doctor_locations, b \in doctor_locations :
          (a.doctor_id = b.doctor_id /\ a.location_id = b.location_id)
              => a = b

(* the pair (0, 1), which the seed leaves out, has been associated, every
   seeded pair is still associated, and associating (0, 1) again is turned
   down *)
C11_Witness ==
    /\ AssociationsOf(0, 1) # {}
    /\ seed_doctor_locations \subseteq doctor_locations
    /\ add_doctor_location(DB, 0, 1).detail = AlreadyAssociated

(* C12: remove_doctor_location answers NotFound and leaves the store as it
   was when the pair has no association; when it has one, the association
   rows of that pair are removed and every other association row stays. *)
C12_RemoveExactlyThePair ==
    \A d \in AskedDoctorIds, l \in AskedLocationIds :
        LET r == remove_doctor_location(DB, d, l)
        IN  IF AssociationsOf(d, l) = {}
            THEN r.code = 404 /\ r.db = DB
            ELSE /\ r.code = 200
                 /\ r.db.doctor_locations
                        = doctor_locations \ AssociationsOf(d, l)
                 /\ \A dl \in doctor_locations :
                        (dl.doctor_id # d \/ dl.location_id # l)
                            => dl \in r.db.doctor_locations

(* the association of doctor 1 and location 1 has been removed, removing it
   again is NotFound, and doctor 1 and location 1 each keep another
   association that a removal must leave alone *)
C12_Witness ==
    /\ AssociationsOf(1, 1) = {}
    /\ remove_doctor_location(DB, 1, 1).code = 404
    /\ AssociationsOf(1, 0) # {}
    /\ AssociationsOf(0, 1) # {}
    /\ remove_doctor_location(DB, 1, 0).code = 200

(* ids a delete request may name: the stored ones and one beyond them *)
AskedRowIds == 1..(MaxStoreRowId + 1)

(* a delete of a row that is not stored: NotFound, store untouched *)
NotFoundUnchanged(r) == r.code = 404 /\ r.db = DB

(* C13 as stated: deleting a doctor, a location, an availability slot or an
   appointment whose id is not stored returns NotFound and leaves the store
   unchanged, for each of the four kinds. *)
C13_DeleteMissingIsNotFound ==
    /\ \A d \in AskedDoctorIds :
          d \notin Ids(doctors) => NotFoundUnchanged(delete_doctor(DB, d))
    /\ \A l \in AskedLocationIds :
          l \notin Ids(locations) => NotFoundUnchanged(delete_location(DB, l))
    /\ \A d \in AskedDoctorIds, a \in AskedRowIds :
          a \notin Ids(availability)
              => NotFoundUnchanged(delete_availability(DB, d, a))
    /\ \A a \in AskedRowIds :
          a \notin Ids(appointments)
              => NotFoundUnchanged(delete_appointment(DB, a))

(* C13 amended: deleting a doctor, an availability slot or an appointment
   whose id is not stored returns NotFound and leaves the store unchanged;
   a location cannot be deleted: a delete request for a location, stored or
   not, is refused without reaching a service and the store is unchanged. *)
C13_DeleteMissingIsNotFoundAmended ==
    /\ \A d \in AskedDoctorIds :
          d \notin Ids(doctors) => NotFoundUnchanged(delete_doctor(DB, d))
    /\ \A l \in AskedLocationIds :
          LET r == delete_location(DB, l)
          IN  r.code \notin {200, 204, 404} /\ r.db = DB
    /\ \A d \in AskedDoctorIds, a \in AskedRowIds :
          a \notin Ids(availability)
              => NotFoundUnchanged(delete_availability(DB, d, a))
    /\ \A a \in AskedRowIds :
          a \notin Ids(appointments)
              => NotFoundUnchanged(delete_appointment(DB, a))

(* a doctor has been deleted while a slot and an appointment are stored:
   deleting that doctor again, and deleting a slot and an appointment under
   an id that is not stored, are all NotFound *)
C13_Witness ==
    /\ \E d \in DoctorIds : d \notin Ids(doctors)
                              /\ delete_doctor(DB, d).code = 404
    /\ availability # {}
    /\ appointments # {}
    /\ \E d \in DoctorIds, a \in AskedRowIds :
          a \notin Ids(availability)
          /\ delete_availability(DB, d, a).code = 404
    /\ \E a \in AskedRowIds :
          a \notin Ids(appointments) /\ delete_appointment(DB, a).code = 404

(* the stored slots with this id whose association row is stored and names
   this doctor *)
SlotsOwnedBy(d, a) ==
    {slot \in availability :
        /\ slot.id = a
        /\ \E dl \in doctor_locations :
              dl.id = slot.doctor_location_id /\ dl.doctor_id = d}

(* C14: delete_availability(doctor_id, availability_id) removes the slot if
   and only if a slot with that id is stored and its association belongs to
   doctor_id; in every other case it answers NotFound and the slot table
   (and the rest of the store) is unchanged. *)
C14_DeleteOnlyOwnSlot ==
    \A d \in AskedDoctorIds, a \in AskedRowIds :
        LET r == delete_availability(DB, d, a)
        IN  IF SlotsOwnedBy(d, a) # {}
            THEN /\ r.code = 204
                 /\ a \notin Ids(r.db.availability)
                 /\ r.db.availability = {slot \in availability : slot.id # a}
                 /\ \A t \in DOMAIN DB :
                        t # "availability" => r.db[t] = DB[t]
            ELSE r.code = 404 /\ r.db = DB

(* a slot of doctor 0 is stored (at location 1, a pair the seed does not
   associate): doctor 1, who has associations of his own, is refused, and
   doctor 0 may delete it *)
C14_Witness ==
    \E slot \in availability :
        /\ SlotsOwnedBy(0, slot.id) = {slot}
        /\ \E dl \in doctor_locations : dl.doctor_id = 1
        /\ delete_availability(DB, 1, slot.id).code = 404
        /\ delete_availability(DB, 0, slot.id).code = 204

(* C15: delete_appointment(id) answers NotFound only if no appointment row
   with that id is stored; whenever such a row is stored, also after its
   association has been removed, the call removes exactly that row, and a
   get_appointment(id) that follows is NotFound. *)
C15_DeleteStoredAppointment ==
    \A a \in AskedRowIds :
        LET r == delete_appointment(DB, a)
        IN  /\ r.code = 404 => a \notin Ids(appointments)
            /\ a \in Ids(appointments) =>
                  /\ r.code = 204
                  /\ r.db.appointments = {x \in appointments : x.id # a}
                  /\ get_appointment(r.db, a) = {}

(* a stored slot of association dl on this day contains [s, e) *)
Covered(dl, s, e, day) ==
    \E slot \in availability :
        /\ slot.doctor_location_id = dl.id
        /\ slot.day_of_week = day
        /\ StartOf(slot) <= s
        /\ EndOf(slot) >= e

(* C16: the overlap check of create_appointment ignores day_of_week: when an
   association holds an appointment [s1, e1) labelled d1, a request on the
   same association for an overlapping interval under another label d2, for
   which a containing slot is stored, is turned down with SlotTaken. *)
C16_OverlapIgnoresDay ==
    \A a \in appointments, dl \in doctor_locations :
        dl.id = a.doctor_location_id =>
            \A s \in Hours, e \in Hours, d2 \in Days :
                (/\ d2 # a.day_of_week
                 /\ Overlap(StartOf(a), EndOf(a), s, e)
                 /\ Covered(dl, s, e, d2))
                    => LET r == create_appointment(DB, dl.doctor_id,
                                    dl.location_id, s, e, d2)
                       IN  /\ r.code = 400
                           /\ r.detail = SlotTaken
                           /\ r.db = DB

(* a proper appointment is stored under one label, and a slot of the same
   association under the other label contains an interval that overlaps it *)
C16_Witness ==
    \E a \in appointments, dl \in doctor_locations :
        /\ dl.id = a.doctor_location_id
        /\ StartOf(a) < EndOf(a)
        /\ \E s \in Hours, e \in Hours, d2 \in Days :
              /\ s < e
              /\ d2 # a.day_of_week
              /\ Overlap(StartOf(a), EndOf(a), s, e)
              /\ Covered(dl, s, e, d2)
              /\ create_appointment(DB, dl.doctor_id, dl.location_id,
                                    s, e, d2).detail = SlotTaken

NoAvailability == "No matching availability."

(* doctor 1 and location 1 are stored; the pair has no association, and no
   availability slot and no appointment is stored *)
ScenarioStart ==
    /\ get_doctor(DB, 1) # {}
    /\ get_location(DB, 1) # {}
    /\ AssociationsOf(1, 1) = {}
    /\ availability = {}
    /\ appointments = {}

(* the five requests of the scenario, each on the store the one before left *)
scenario_associate == associate_doctor_location(DB, 1, 1)
scenario_slot ==
    add_availability(scenario_associate.db, 1, 1, 900, 1700, "Monday")
scenario_booked ==
    create_appointment(scenario_slot.db, 1, 1, 1200, 1230, "Monday")
scenario_overlap ==
    create_appointment(scenario_booked.db, 1, 1, 1215, 1245, "Monday")
scenario_late ==
    create_appointment(scenario_overlap.db, 1, 1, 1700, 1730, "Monday")

(* C17: from a store where doctor 1 and location 1 exist with no
   association, availability or appointment: associating them, adding
   availability Monday 09:00-17:00 and booking Monday 12:00-12:30 succeed;
   then booking Monday 12:15-12:45 fails as an overlap, booking Monday
   17:00-17:30 fails for lack of a containing slot, and the store ends with
   exactly one appointment. *)
C17_Scenario ==
    ScenarioStart =>
        /\ InsertedOne(scenario_associate, "doctor_locations", doctor_locations)
        /\ scenario_slot.code = 200
        /\ scenario_booked.code = 200
        /\ scenario_overlap.code = 400
        /\ scenario_overlap.detail = SlotTaken
        /\ scenario_late.code = 400
        /\ scenario_late.detail = NoAvailability
        /\ Cardinality(scenario_late.db.appointments) = 1
        /\ \A a \in scenario_late.db.appointments :
              /\ a.id = scenario_booked.id
              /\ StartOf(a) = 1200
              /\ EndOf(a) = 1230
              /\ a.day_of_week = "Monday"

(* the association of doctor 1 and location 1 has been removed from the
   seeded store, and from there the scenario ends with one appointment *)
C17_Witness ==
    /\ ScenarioStart
    /\ scenario_booked.code = 200
    /\ scenario_overlap.detail = SlotTaken
    /\ scenario_late.detail = NoAvailability
    /\ Cardinality(scenario_late.db.appointments) = 1

(* every patch of a doctor: each field left out (NULL) or given *)
AskedPatches == {NULL, "Jane", "Joseph"} \X {NULL, "Wright", "Lister"}

(* C18: update_doctor(id, first_name, last_name) on a stored doctor changes
   only the fields supplied: a field passed as NULL keeps its stored value,
   the id stays, every other doctor row and every other table is unchanged;
   on an id that is not stored it answers NotFound and changes nothing. *)
C18_UpdateOnlySuppliedFields ==
    \A id \in 0..(MaxDoctorId + 1), n \in AskedPatches :
        LET r == update_doctor(DB, id, n[1], n[2])
        IN  IF id \notin Ids(doctors)
            THEN r.code = 404 /\ r.db = DB
            ELSE /\ r.code = 200
                 /\ \A t \in DOMAIN DB : t # "doctors" => r.db[t] = DB[t]
                 /\ Ids(r.db.doctors) = Ids(doctors)
                 /\ Cardinality(r.db.doctors) = Cardinality(doctors)
                 /\ \A old \in doctors :
                        IF old.id # id
                        THEN old \in r.db.doctors
                        ELSE \E new \in r.db.doctors :
                               /\ new.id = id
                               /\ new.first_name =
                                    (IF n[1] = NULL THEN old.first_name
                                     ELSE n[1])
                               /\ new.last_name =
                                    (IF n[2] = NULL THEN old.last_name
                                     ELSE n[2])

(* doctor 1, seeded as Joseph Lister, is stored as Jane Lister: an update
   gave a first name and left the last name out; doctor 0 is as seeded *)
C18_Witness ==
    /\ [id |-> 1, first_name |-> "Jane", last_name |-> "Lister"] \in doctors
    /\ [id |-> 0, first_name |-> "Jane", last_name |-> "Wright"] \in doctors
    /\ update_doctor(DB, 1, NULL, "Wright").code = 200
    /\ update_doctor(DB, MaxDoctorId + 1, "Jane", NULL).code = 404

(* the stored locations that an association row links to doctor d *)
LocationsOf(d) == {l \in locations : AssociationsOf(d, l.id) # {}}

(* C19: list_doctor_locations(doctor_id) answers NotFound when the doctor is
   not stored, and for every stored doctor answers 200 with exactly the
   locations associated with that doctor, the empty list included. *)
C19_ListDoctorLocations ==
    \A d \in 0..(MaxDoctorId + 1) :
        LET r == list_doctor_locations(DB, d)
        IN  IF get_doctor(DB, d) = {}
            THEN r.code = 404
            ELSE r.code = 200 /\ r.rows = LocationsOf(d)

(* C20: the associate-doctor-location endpoint answers 404 and inserts
   nothing when the doctor or the location is not stored, 400 and inserts
   nothing when the pair is already associated, and otherwise inserts
   exactly one association row for the pair and returns its id. *)
C20_AssociateOnlyExisting ==
    \A d \in 0..(MaxDoctorId + 1), l \in 0..(MaxLocationId + 1) :
        LET r == associate_doctor_location(DB, d, l)
        IN  IF get_doctor(DB, d) = {} \/ get_location(DB, l) = {}
            THEN r.code = 404 /\ r.id = NoId /\ r.db = DB
            ELSE IF AssociationsOf(d, l) # {}
            THEN r.code = 400 /\ r.id = NoId /\ r.db = DB
            ELSE /\ InsertedOne(r, "doctor_locations", doctor_locations)
                 /\ \A dl \in r.db.doctor_locations :
                        dl.id = r.id =>
                            dl.doctor_id = d /\ dl.location_id = l

(* a location added after the seed has been associated with a stored
   doctor, which the endpoint now turns down as a duplicate; another doctor
   has been deleted and can no longer be associated, nor can anyone be
   associated with a location that is not stored *)
C20_Witness ==
    /\ \E dl \in doctor_locations :
          /\ dl.location_id = MaxLocationId
          /\ get_doctor(DB, dl.doctor_id) # {}
          /\ associate_doctor_location(DB, dl.doctor_id, dl.location_id).code
                 = 400
          /\ associate_doctor_location(DB, dl.doctor_id, MaxLocationId + 1).code
                 = 404
    /\ \E d \in DoctorIds :
          /\ get_doctor(DB, d) = {}
          /\ associate_doctor_location(DB, d, 1).code = 404

AskedAddresses == Addresses \cup {l.address : l \in seed_locations}

(* C21: add_location(address) answers 400 and inserts nothing when a
   location with that address is stored, and in every state no two stored
   locations have the same address. *)
C21_AddressesUnique ==
    /\ \A adr \in AskedAddresses :
          (\E l \in locations : l.address = adr) =>
              LET r == add_location(DB, adr)
              IN  /\ r.code = 400
                  /\ r.detail = "Location already exists in the database"
                  /\ r.id = NoId
                  /\ r.db = DB
    /\ \A a \in locations, b \in locations :
          a.address = b.address => a = b

(* a location has been added to the seeded ones, and adding its address or
   a seeded address once more is turned down *)
C21_Witness ==
    /\ \E l \in locations :
          /\ l \notin seed_locations
          /\ add_location(DB, l.address).code = 400
    /\ seed_locations \subseteq locations
    /\ \A l \in seed_locations : add_location(DB, l.address).code = 400

(* C22: in every state reached by add_doctor, update_doctor and
   delete_doctor requests, no two stored doctors have the same
   (first_name, last_name) pair. *)
C22_DoctorNamesUnique ==
    \A a \in doctors, b \in doctors :
        (a.first_name = b.first_name /\ a.last_name = b.last_name) => a = b

(* the store without the slots and appointments of every association other
   than those of the pair (d, l) *)
OwnRowsOnly(d, l) ==
    LET own(rows) ==
            {row \in rows : \E dl \in AssociationsOf(d, l) :
                                row.doctor_location_id = dl.id}
    IN  [DB EXCEPT !.availability = own(@), !.appointments = own(@)]

(* C23: both conflict checks look at one association only: the slots and
   appointments of other associations, of the same doctor or not and
   overlapping or not, never change the answer of add_availability or
   create_appointment on an associated pair. *)
C23_ChecksScopedToAssociation ==
    \A d \in DoctorIds, l \in LocationIds :
        AssociationsOf(d, l) # {} =>
            \A s \in Hours, e \in Hours, day \in Days :
                LET r1 == create_appointment(DB, d, l, s, e, day)
                    o1 == create_appointment(OwnRowsOnly(d, l), d, l, s, e, day)
                    r2 == add_availability(DB, d, l, s, e, day)
                    o2 == add_availability(OwnRowsOnly(d, l), d, l, s, e, day)
                IN  /\ r1.code = o1.code
                    /\ r1.detail = o1.detail
                    /\ r2.code = o2.code
                    /\ r2.detail = o2.detail

(* one doctor holds two proper appointments at two different locations
   whose intervals overlap *)
C23_Witness ==
    \E a \in appointments, b \in appointments,
       dla \in doctor_locations, dlb \in doctor_locations :
        /\ dla.id = a.doctor_location_id
        /\ dlb.id = b.doctor_location_id
        /\ dla.doctor_id = dlb.doctor_id
        /\ dla.location_id # dlb.location_id
        /\ StartOf(a) < EndOf(a)
        /\ StartOf(b) < EndOf(b)
        /\ RowsOverlap(a, b)

====
